---- MODULE Spec2Model ----
(***************************************************************************)
(* The Straits Project: the event engine of straits_project.py.            *)
(* GameState, EventEngine (_match_when, _merge_role_variant, templating,   *)
(* _resolve_event, trigger_random, trigger_special_if_any), the menus,     *)
(* handle_landfall and the run_game loop.  Python dicts are functions      *)
(* (records), lists are sequences, None is the string "None".              *)
(***************************************************************************)
EXTENDS Integers, Sequences, FiniteSets, TLC

\* ------------------------------------------------------------------
\* Bounds of the model
\* ------------------------------------------------------------------
\* sail and landfall are offered only while day < MaxDay
MaxDay == 4

\* ------------------------------------------------------------------
\* Python helpers
\* ------------------------------------------------------------------
None == "None"

\* dict.get(k, default)
Get(d, k, default) == IF k \in DOMAIN d THEN d[k] ELSE default

Max(a, b) == IF a >= b THEN a ELSE b
Min(a, b) == IF a <= b THEN a ELSE b

\* x in list
InList(x, list) == \E i \in 1..Len(list) : list[i] = x

\* ------------------------------------------------------------------
\* Roles (choose_role)
\* ------------------------------------------------------------------
Portuguese == "Portuguese Conquistador"
Arab == "Arab Muslim Dai"
Chinese == "Chinese Trader"

RoleInputs == {"1", "2", "3", ""}

choose_role(inp) ==
    Get([r \in {"1", "2", "3"} |->
            CASE r = "1" -> Portuguese [] r = "2" -> Arab [] r = "3" -> Chinese],
        inp, Portuguese)

\* ------------------------------------------------------------------
\* World data (data/world.json as load_world returns it)
\* ------------------------------------------------------------------
Malacca == "Malacca Harbor"
Aceh == "Aceh"
Kampung == "Kampung Laut"
AtSea == "At Sea"

World ==
    [major_ports |-> << [name |-> Malacca], [name |-> Aceh] >>,
     villages |-> << [name |-> Kampung] >>,
     harbor_masters |-> << [port |-> Malacca, name |-> "Tun Perak", fees |-> 12],
                           [port |-> Kampung, name |-> "Pak Long", fees |-> 3] >>]

\* ------------------------------------------------------------------
\* Event data (data/events.json as load_events returns it).  A text is a
\* sequence of tokens: [lit |-> s] is literal text, [ph |-> n] is the
\* placeholder {n}.
\* ------------------------------------------------------------------
Lit(s) == << [lit |-> s] >>
Ph(n) == << [ph |-> n] >>

harbormaster_intro ==
    [id |-> "harbormaster_intro",
     description |-> Ph("harbormaster_name") \o Lit(" greets you at ") \o Ph("current_port"),
     when |-> [type |-> "major_port", once |-> TRUE],
     options |-> [k \in {"1", "2"} |->
        IF k = "1"
        THEN [text |-> Lit("Pay ") \o Ph("harbor_fee"), effect |-> [gold |-> -10]]
        ELSE [text |-> Lit("Refuse"), effect |-> [morale |-> -5]]],
     variants |-> [r \in {Chinese, Portuguese} |->
        IF r = Chinese
        THEN [options |-> [k \in {"1"} |-> [effect |-> [gold |-> -5, spices |-> -5]]]]
        ELSE [description |-> Lit("The harbormaster eyes your cannon")]]]

dai_sermon ==
    [id |-> "dai_sermon",
     description |-> Lit("A crowd gathers to hear you at ") \o Ph("current_port"),
     when |-> [role |-> << Arab >>, once |-> TRUE],
     options |-> [k \in {"1"} |-> [text |-> Lit("Preach"), effect |-> [morale |-> 10]]]]

shrine_visit ==
    [id |-> "shrine_visit",
     description |-> Lit("An old shrine stands by the shore"),
     when |-> [location |-> << Kampung >>, role |-> << Portuguese >>, once |-> TRUE],
     options |-> << >>]

storm ==
    [id |-> "storm",
     description |-> Lit("A squall rises"),
     options |-> [k \in {"1", "2"} |->
        IF k = "1"
        THEN [text |-> Lit("Ride it out"), effect |-> [ship_health |-> -60]]
        ELSE [text |-> Lit("Turn back"), effect |-> [morale |-> -30, gold |-> -50]]]]

calm ==
    [id |-> "calm",
     description |-> Lit("Fair winds near ") \o Ph("current_port"),
     options |-> [k \in {"1"} |-> [text |-> Lit("Sail on")]]]

market ==
    [id |-> "market",
     description |-> Lit("The market of ") \o Ph("current_port"),
     options |-> [k \in {"1"} |->
        [text |-> Lit("Buy spices"), effect |-> [gold |-> -20, spices |-> 5, morale |-> 60]]],
     variants |-> [r \in {Chinese} |->
        [options |-> [k \in {"1"} |->
            [text |-> Lit("Buy spices from your kinsmen"),
             effect |-> [gold |-> -10, spices |-> 5, morale |-> 60]]]]]]

festival ==
    [id |-> "festival",
     description |-> Lit("A festival fills the streets"),
     when |-> [once |-> TRUE],
     options |-> [k \in {"1"} |-> [text |-> Lit("Join in"), effect |-> [morale |-> -60]]]]

fishing ==
    [id |-> "fishing",
     description |-> Lit("Fishermen wave from ") \o Ph("unknown_place"),
     options |-> [k \in {"1"} |-> [text |-> Lit("Trade"), effect |-> [spices |-> 2]]]]

\* the full data set
EventsFull ==
    [sea_events |-> << storm, calm >>,
     harbor_events |-> << market, festival >>,
     village_events |-> << >>,
     special_events |-> << harbormaster_intro, dai_sermon, shrine_visit >>]

\* a data set whose sea and harbor pools are missing (load_events makes
\* them empty lists)
EventsSparse ==
    [sea_events |-> << >>,
     harbor_events |-> << >>,
     village_events |-> << fishing >>,
     special_events |-> << dai_sermon >>]

EventData == {EventsFull, EventsSparse}

\* ------------------------------------------------------------------
\* More Python helpers: dicts
\* ------------------------------------------------------------------
\* {} ; also stands for a missing record (falsy like None)
EmptyDict == << >>

\* d[k] = v on a copy
SetKey(d, k, v) == [f \in DOMAIN d \cup {k} |-> IF f = k THEN v ELSE d[f]]

\* a.update(b) on a copy
Update(a, b) == [f \in DOMAIN a \cup DOMAIN b |-> IF f \in DOMAIN b THEN b[f] ELSE a[f]]

\* ------------------------------------------------------------------
\* GameState
\* ------------------------------------------------------------------
NewGameState(r) ==
    [role |-> r,
     gold |-> 30 + (IF r = Portuguese THEN 10 ELSE IF r = Chinese THEN 15 ELSE 0),
     spices |-> IF r = Arab THEN 2 ELSE IF r = Chinese THEN 5 ELSE 0,
     ship_health |-> 100,
     morale |-> 50 + (IF r = Portuguese THEN 5 ELSE IF r = Arab THEN 10 ELSE 0),
     day |-> 1,
     current_location |-> AtSea,
     current_location_type |-> "sea",
     once_flags |-> << >>]

\* apply_effect without the lower bound on gold
apply_effect_gold_unclamped(st, effect) ==
    [st EXCEPT
        !.gold = @ + Get(effect, "gold", 0),
        !.spices = Max(0, @ + Get(effect, "spices", 0)),
        !.ship_health = Max(0, Min(100, @ + Get(effect, "ship_health", 0))),
        !.morale = Max(0, Min(100, @ + Get(effect, "morale", 0)))]

apply_effect(st, effect) ==
    [st EXCEPT
        !.gold = Max(0, @ + Get(effect, "gold", 0)),
        !.spices = Max(0, @ + Get(effect, "spices", 0)),
        !.ship_health = Max(0, Min(100, @ + Get(effect, "ship_health", 0))),
        !.morale = Max(0, Min(100, @ + Get(effect, "morale", 0)))]

\* is_game_over without its morale test
is_game_over_ship_only(st) == st.ship_health <= 0

is_game_over(st) == st.ship_health <= 0 \/ st.morale <= 0

\* ------------------------------------------------------------------
\* EventEngine: matching
\* ------------------------------------------------------------------
\* _match_when whose once scope is "*" whatever the event's when
_match_when_global_scope(event, st) ==
    LET when == Get(event, "when", EmptyDict)
        has_loc == "location" \in DOMAIN when /\ Len(when.location) > 0
        loc_type == Get(when, "type", None)
        has_type == loc_type # None /\ loc_type # ""
        has_roles == "role" \in DOMAIN when /\ Len(when.role) > 0
        once == Get(when, "once", FALSE)
        once_key == Get(event, "id", "?") \o "|" \o "*"
    IN  IF has_loc /\ ~InList(st.current_location, when.location)
        THEN [ok |-> FALSE, key |-> None]
        ELSE IF has_type /\ st.current_location_type # loc_type
        THEN [ok |-> FALSE, key |-> None]
        ELSE IF has_roles /\ ~InList(st.role, when.role)
        THEN [ok |-> FALSE, key |-> None]
        ELSE IF once
        THEN IF InList(once_key, st.once_flags)
             THEN [ok |-> FALSE, key |-> once_key]
             ELSE [ok |-> TRUE, key |-> once_key]
        ELSE [ok |-> TRUE, key |-> None]

\* _match_when that computes the once key and does not look it up
_match_when_ignoring_flags(event, st) ==
    LET when == Get(event, "when", EmptyDict)
        has_loc == "location" \in DOMAIN when /\ Len(when.location) > 0
        loc_type == Get(when, "type", None)
        has_type == loc_type # None /\ loc_type # ""
        has_roles == "role" \in DOMAIN when /\ Len(when.role) > 0
        once == Get(when, "once", FALSE)
        scope == IF has_loc \/ loc_type = "major_port" THEN st.current_location ELSE "*"
        once_key == Get(event, "id", "?") \o "|" \o scope
    IN  IF has_loc /\ ~InList(st.current_location, when.location)
        THEN [ok |-> FALSE, key |-> None]
        ELSE IF has_type /\ st.current_location_type # loc_type
        THEN [ok |-> FALSE, key |-> None]
        ELSE IF has_roles /\ ~InList(st.role, when.role)
        THEN [ok |-> FALSE, key |-> None]
        ELSE IF once
        THEN [ok |-> TRUE, key |-> once_key]
        ELSE [ok |-> TRUE, key |-> None]

\* _match_when that returns (False, None) when the once key is recorded
_match_when_no_key_when_blocked(event, st) ==
    LET when == Get(event, "when", EmptyDict)
        has_loc == "location" \in DOMAIN when /\ Len(when.location) > 0
        loc_type == Get(when, "type", None)
        has_type == loc_type # None /\ loc_type # ""
        has_roles == "role" \in DOMAIN when /\ Len(when.role) > 0
        once == Get(when, "once", FALSE)
        scope == IF has_loc \/ loc_type = "major_port" THEN st.current_location ELSE "*"
        once_key == Get(event, "id", "?") \o "|" \o scope
    IN  IF has_loc /\ ~InList(st.current_location, when.location)
        THEN [ok |-> FALSE, key |-> None]
        ELSE IF has_type /\ st.current_location_type # loc_type
        THEN [ok |-> FALSE, key |-> None]
        ELSE IF has_roles /\ ~InList(st.role, when.role)
        THEN [ok |-> FALSE, key |-> None]
        ELSE IF once
        THEN IF InList(once_key, st.once_flags)
             THEN [ok |-> FALSE, key |-> None]
             ELSE [ok |-> TRUE, key |-> once_key]
        ELSE [ok |-> TRUE, key |-> None]

\* returns (ok, once_key) as [ok |-> , key |-> ]
_match_when(event, st) ==
    LET when == Get(event, "when", EmptyDict)
        has_loc == "location" \in DOMAIN when /\ Len(when.location) > 0
        loc_type == Get(when, "type", None)
        has_type == loc_type # None /\ loc_type # ""
        has_roles == "role" \in DOMAIN when /\ Len(when.role) > 0
        once == Get(when, "once", FALSE)
        scope == IF has_loc \/ loc_type = "major_port" THEN st.current_location ELSE "*"
        once_key == Get(event, "id", "?") \o "|" \o scope
    IN  IF has_loc /\ ~InList(st.current_location, when.location)
        THEN [ok |-> FALSE, key |-> None]
        ELSE IF has_type /\ st.current_location_type # loc_type
        THEN [ok |-> FALSE, key |-> None]
        ELSE IF has_roles /\ ~InList(st.role, when.role)
        THEN [ok |-> FALSE, key |-> None]
        ELSE IF once
        THEN IF InList(once_key, st.once_flags)
             THEN [ok |-> FALSE, key |-> once_key]
             ELSE [ok |-> TRUE, key |-> once_key]
        ELSE [ok |-> TRUE, key |-> None]

\* ------------------------------------------------------------------
\* EventEngine: role variants
\* ------------------------------------------------------------------
\* _merge_role_variant that puts the variant's option in place of the
\* base option (result["options"][k] = v)
_merge_role_variant_replacing_options(ev, r) ==
    LET variants == Get(ev, "variants", EmptyDict)
        var == Get(variants, r, EmptyDict)
        with_desc == IF "description" \in DOMAIN var
                     THEN SetKey(ev, "description", var.description)
                     ELSE ev
        base_opts == Get(with_desc, "options", EmptyDict)
        merged == [k \in DOMAIN base_opts \cup DOMAIN var.options |->
                      IF k \in DOMAIN var.options
                      THEN var.options[k]
                      ELSE base_opts[k]]
    IN  IF DOMAIN var = {} THEN ev
        ELSE IF "options" \in DOMAIN var /\ DOMAIN var.options # {}
        THEN SetKey(with_desc, "options", merged)
        ELSE with_desc

_merge_role_variant(ev, r) ==
    LET variants == Get(ev, "variants", EmptyDict)
        var == Get(variants, r, EmptyDict)
        with_desc == IF "description" \in DOMAIN var
                     THEN SetKey(ev, "description", var.description)
                     ELSE ev
        base_opts == Get(with_desc, "options", EmptyDict)
        merged == [k \in DOMAIN base_opts \cup DOMAIN var.options |->
                      IF k \in DOMAIN var.options
                      THEN Update(Get(base_opts, k, EmptyDict), var.options[k])
                      ELSE base_opts[k]]
    IN  IF DOMAIN var = {} THEN ev
        ELSE IF "options" \in DOMAIN var /\ DOMAIN var.options # {}
        THEN SetKey(with_desc, "options", merged)
        ELSE with_desc

\* ------------------------------------------------------------------
\* EventEngine: which dicts of an event object are objects of the source
\* data.  A dict is named by its path in the event: << >> the event,
\* << "options" >>, << "options", k >>, << "options", k, "effect" >>.
\* ------------------------------------------------------------------
\* the dicts of an event of a pool: all of them are source data
SourceDicts(ev) ==
    LET opts == Get(ev, "options", EmptyDict)
    IN  {<< >>}
        \cup (IF "options" \in DOMAIN ev THEN {<< "options" >>} ELSE {})
        \cup {<< "options", k >> : k \in DOMAIN opts}
        \cup {<< "options", k, "effect" >> : k \in {j \in DOMAIN opts : "effect" \in DOMAIN opts[j]}}

\* a copy by reference (result = ev)
deepcopy_by_reference(shared) == shared

\* deepcopy(ev): no dict of the copy is a dict of the source
deepcopy(shared) == {}

\* the dicts of result that _merge_role_variant writes into
MergeWritten(ev, r) ==
    LET var == Get(Get(ev, "variants", EmptyDict), r, EmptyDict)
        named == IF "options" \in DOMAIN var THEN DOMAIN var.options ELSE {}
        opts == Get(ev, "options", EmptyDict)
    IN  (IF "description" \in DOMAIN var \/ (named # {} /\ "options" \notin DOMAIN ev)
         THEN {<< >>} ELSE {})
        \cup (IF named # {} THEN {<< "options" >>} ELSE {})
        \cup {<< "options", k >> : k \in named \cap DOMAIN opts}

\* the dicts of result that are source data when _merge_role_variant
\* returns: base.update(v) puts the variant's own effect dict in result
MergeShared(ev, r, shared) ==
    LET var == Get(Get(ev, "variants", EmptyDict), r, EmptyDict)
        named == IF "options" \in DOMAIN var THEN DOMAIN var.options ELSE {}
    IN  deepcopy(shared)
        \cup {<< "options", k, "effect" >> : k \in {j \in named : "effect" \in DOMAIN var.options[j]}}

\* the dicts of out that _apply_templating writes into
TemplatingWritten(ev) ==
    LET opts == Get(ev, "options", EmptyDict)
    IN  (IF "description" \in DOMAIN ev THEN {<< >>} ELSE {})
        \cup {<< "options", k >> : k \in {j \in DOMAIN opts : "text" \in DOMAIN opts[j]}}

\* the source event after a stage wrote obj's keys into the dicts hit,
\* which it shares with the source (no stage writes inside an effect dict)
SourceAfter(src, obj, hit) ==
    LET top == << >> \in hit
        opts_src == Get(src, "options", EmptyDict)
        opts_obj == Get(obj, "options", EmptyDict)
        keys == IF top \/ << "options" >> \in hit
                THEN DOMAIN opts_src \cup DOMAIN opts_obj
                ELSE DOMAIN opts_src
        new_opts == [k \in keys |->
                        IF k \notin DOMAIN opts_src \/ << "options", k >> \in hit
                        THEN opts_obj[k]
                        ELSE opts_src[k]]
    IN  IF hit = {} THEN src
        ELSE [f \in DOMAIN src \cup (IF top THEN DOMAIN obj ELSE {}) |->
                CASE f = "options" -> new_opts
                  [] f # "options" /\ top /\ f \in DOMAIN obj -> obj[f]
                  [] OTHER -> src[f]]

\* ------------------------------------------------------------------
\* EventEngine: templating
\* ------------------------------------------------------------------
harbor_master_for(port, world) ==
    LET hms == Get(world, "harbor_masters", << >>)
        found == {i \in 1..Len(hms) : Get(hms[i], "port", None) = port}
    IN  IF found = {} THEN EmptyDict
        ELSE hms[CHOOSE i \in found : \A j \in found : i <= j]

\* _context_for_event that looks the harbor master up whatever the
\* location type
_context_for_event_any_type(st, world) ==
    LET hm == harbor_master_for(st.current_location, world)
    IN  [current_port |-> st.current_location,
         harbormaster_name |-> IF DOMAIN hm # {} THEN hm.name ELSE "the harbormaster",
         harbor_fee |-> IF DOMAIN hm # {} THEN hm.fees ELSE 8]

_context_for_event(st, world) ==
    LET hm == IF st.current_location_type = "major_port"
              THEN harbor_master_for(st.current_location, world)
              ELSE EmptyDict
    IN  [current_port |-> st.current_location,
         harbormaster_name |-> IF DOMAIN hm # {} THEN hm.name ELSE "the harbormaster",
         harbor_fee |-> IF DOMAIN hm # {} THEN hm.fees ELSE 8]

\* str() of a context value, as str.format renders it
FormatValue(name, ctx) ==
    IF name = "harbor_fee" THEN ToString(ctx[name]) ELSE ctx[name]

\* text.format(**ctx); a placeholder the context lacks raises, and the
\* original text is returned
_format_text(text, ctx) ==
    IF \A i \in 1..Len(text) : "ph" \in DOMAIN text[i] => text[i].ph \in DOMAIN ctx
    THEN [i \in 1..Len(text) |->
            IF "ph" \in DOMAIN text[i]
            THEN [lit |-> FormatValue(text[i].ph, ctx)]
            ELSE text[i]]
    ELSE text

_apply_templating(ev, ctx) ==
    LET with_desc == IF "description" \in DOMAIN ev
                     THEN SetKey(ev, "description", _format_text(ev.description, ctx))
                     ELSE ev
        opts == Get(ev, "options", EmptyDict)
        fmt_opts == [k \in DOMAIN opts |->
                        IF "text" \in DOMAIN opts[k]
                        THEN SetKey(opts[k], "text", _format_text(opts[k].text, ctx))
                        ELSE opts[k]]
    IN  IF "options" \in DOMAIN ev /\ DOMAIN opts # {}
        THEN SetKey(with_desc, "options", fmt_opts)
        ELSE with_desc

\* ------------------------------------------------------------------
\* Menus
\* ------------------------------------------------------------------
\* str.strip() on the inputs the model types
strip(s) == CASE s = " 2 " -> "2" [] s = " " -> "" [] OTHER -> s

\* int(sel); a string outside the table raises ValueError
IntTable == [s \in {"0", "1", "2", "3", "4"} |->
                CASE s = "0" -> 0 [] s = "1" -> 1 [] s = "2" -> 2 [] s = "3" -> 3 [] s = "4" -> 4]

MenuInputs == {"1", "2", "3", "4", "5", "x"}
TopInputs == {"1", "2", "3"}
SelInputs == {"0", "1", "2", "3", "x"}
ChoiceInputs == {"1", "2", " 2 ", "3", ""}

list_destinations(world, kind) ==
    LET entries == Get(world, kind, << >>)
    IN  [i \in 1..Len(entries) |-> entries[i].name]

\* returns (name, loc_type) as a pair; (None, None) on cancel
choose_from_list(names, loc_type, sel_inp) ==
    LET sel == strip(sel_inp)
    IN  IF sel \notin DOMAIN IntTable THEN << None, None >>
        ELSE IF 1 <= IntTable[sel] /\ IntTable[sel] <= Len(names)
        THEN << names[IntTable[sel]], loc_type >>
        ELSE << None, None >>

\* travel_menu that hands each list the other list's location type
travel_menu_swapped_types(world, top_inp, sel_inp) ==
    LET top == strip(top_inp)
    IN  IF top = "1"
        THEN choose_from_list(list_destinations(world, "major_ports"), "village", sel_inp)
        ELSE IF top = "2"
        THEN choose_from_list(list_destinations(world, "villages"), "major_port", sel_inp)
        ELSE << None, None >>

travel_menu(world, top_inp, sel_inp) ==
    LET top == strip(top_inp)
    IN  IF top = "1"
        THEN choose_from_list(list_destinations(world, "major_ports"), "major_port", sel_inp)
        ELSE IF top = "2"
        THEN choose_from_list(list_destinations(world, "villages"), "village", sel_inp)
        ELSE << None, None >>

\* truthiness of an optional string
Truthy(x) == x # None /\ x # ""

\* ------------------------------------------------------------------
\* State
\* ------------------------------------------------------------------
VARIABLES
    state,    \* the GameState run_game plays
    events,   \* EventEngine.events
    pc,       \* where run_game stands: "menu", "choice", "flag", "day", "enter", "over", "quit"
    cur,      \* the event _resolve_event is presenting
    act,      \* the loop iteration in progress: the action chosen, the state it
              \* began in, the pools consulted, the events resolved, the notice
              \* printed, what save_game wrote to slot 1
    shown,    \* once-scope keys of the once events _resolve_event presented
    landed    \* destinations of the landfall actions completed so far

vars == << state, events, pc, cur, act, shown, landed >>

NoEvent == [pool |-> None, idx |-> 0, ev |-> EmptyDict, key |-> None, choice |-> None]

NoAct(st) == [kind |-> "new", pre |-> st, consulted |-> << >>, fired |-> 0, notice |-> FALSE,
              saved |-> EmptyDict]

Init ==
    /\ \E inp \in RoleInputs : state = NewGameState(choose_role(inp))
    /\ events \in EventData
    /\ pc = "menu"
    /\ cur = NoEvent
    /\ act = NoAct(state)
    /\ shown = << >>
    /\ landed = << >>

\* ------------------------------------------------------------------
\* EventEngine: resolution
\* ------------------------------------------------------------------
\* the key "<id>|<scope>" of a once event at the player's location, None
\* for an event without when.once
OnceScopeKey(ev, st) ==
    LET when == Get(ev, "when", EmptyDict)
        has_loc == "location" \in DOMAIN when /\ Len(when.location) > 0
    IN  IF Get(when, "once", FALSE)
        THEN Get(ev, "id", "?") \o "|" \o
             (IF has_loc \/ Get(when, "type", None) = "major_port"
              THEN st.current_location ELSE "*")
        ELSE None

\* _resolve_event up to its input(): the event is printed; without options
\* it returns at once
Present(kind, st, pool_name, i, base_ev, ev, once_key, consulted) ==
    /\ state' = st
    /\ cur' = [pool |-> pool_name, idx |-> i, ev |-> ev, key |-> once_key, choice |-> None]
    /\ act' = [NoAct(state) EXCEPT !.kind = kind, !.consulted = consulted, !.fired = 1]
    /\ shown' = IF OnceScopeKey(base_ev, st) # None
                THEN Append(shown, OnceScopeKey(base_ev, st))
                ELSE shown
    /\ pc' = IF DOMAIN Get(ev, "options", EmptyDict) = {} THEN "day" ELSE "choice"

\* "if not pool" written as len(pool) <= 1
NoEventsOffByOne(pool) == Len(pool) <= 1

\* if not pool
NoEvents(pool) == Len(pool) = 0

trigger_random(kind, st, pool_name, consulted) ==
    LET pool == Get(events, pool_name, << >>)
    IN  IF NoEvents(pool)
        THEN /\ state' = st
             /\ cur' = NoEvent
             /\ act' = [NoAct(state) EXCEPT !.kind = kind, !.consulted = consulted,
                                             !.notice = TRUE]
             /\ pc' = "day"
             /\ UNCHANGED << shown, events >>
        ELSE \E i \in 1..Len(pool) :
                LET ev_fmt == _apply_templating(pool[i], _context_for_event(st, World))
                    hit == TemplatingWritten(pool[i]) \cap deepcopy(SourceDicts(pool[i]))
                IN  /\ Present(kind, st, pool_name, i, pool[i], ev_fmt, None, consulted)
                    /\ events' = [events EXCEPT ![pool_name][i] = SourceAfter(@, ev_fmt, hit)]

\* the positions of the special events that match, in pool order
Eligible(specials, st) ==
    SelectSeq([i \in 1..Len(specials) |-> i], LAMBDA i : _match_when(specials[i], st).ok)

\* eligible[-1]
LastEligible(eligible) == eligible[Len(eligible)]

\* eligible[0]
FirstEligible(eligible) == eligible[1]

\* handle_landfall without its village branch
AmbientPoolHarborOnly(loc_type) == "harbor_events"

\* the ambient pool of handle_landfall
AmbientPool(loc_type) ==
    IF loc_type = "major_port" THEN "harbor_events"
    ELSE IF loc_type = "village" THEN "village_events"
    ELSE "harbor_events"

\* the special events of the engine
Specials == Get(events, "special_events", << >>)

\* the value trigger_special_if_any returns: some special event matched
SpecialFires(st) == Eligible(Specials, st) # << >>

\* trigger_special_if_any when it returns True: the first eligible event
\* is merged with the role variant, templated and resolved
trigger_special_if_any(kind, st) ==
    /\ SpecialFires(st)
    /\ LET i == FirstEligible(Eligible(Specials, st))
           base_ev == Specials[i]
           once_key == _match_when(base_ev, st).key
           merged == _merge_role_variant(base_ev, st.role)
           ev == _apply_templating(merged, _context_for_event(st, World))
           hit_merge == MergeWritten(base_ev, st.role) \cap deepcopy(SourceDicts(base_ev))
           shared == MergeShared(base_ev, st.role, SourceDicts(base_ev))
           hit_fmt == TemplatingWritten(merged) \cap deepcopy(shared)
       IN  /\ Present(kind, st, "special_events", i, base_ev, ev, once_key,
                      << "special_events" >>)
           /\ events' = [events EXCEPT !["special_events"][i] =
                            SourceAfter(SourceAfter(@, merged, hit_merge), ev, hit_fmt)]

handle_landfall(kind, st) ==
    IF SpecialFires(st)
    THEN trigger_special_if_any(kind, st)
    ELSE trigger_random(kind, st, AmbientPool(st.current_location_type),
                        << "special_events", AmbientPool(st.current_location_type) >>)

\* an unrecognized choice taken as the first option
ChoiceOutcomeDefaultsToFirst(options, choice, st) ==
    LET first == CHOOSE k \in DOMAIN options : TRUE
    IN  IF choice \notin DOMAIN options
        THEN apply_effect(st, Get(options[first], "effect", EmptyDict))
        ELSE apply_effect(st, Get(options[choice], "effect", EmptyDict))

\* if choice not in options: hesitate; else apply_effect
ChoiceOutcome(options, choice, st) ==
    IF choice \notin DOMAIN options THEN st
    ELSE apply_effect(st, Get(options[choice], "effect", EmptyDict))

\* ------------------------------------------------------------------
\* GameState.to_dict / save_game
\* ------------------------------------------------------------------
to_dict(st) ==
    [role |-> st.role, gold |-> st.gold, spices |-> st.spices,
     ship_health |-> st.ship_health, morale |-> st.morale, day |-> st.day,
     current_location |-> st.current_location,
     current_location_type |-> st.current_location_type,
     once_flags |-> st.once_flags]

\* the integer-valued fields of the snapshot
IntFields == {"gold", "spices", "ship_health", "morale", "day"}

\* the decimal digits json.dump writes for a non-negative integer
RECURSIVE Digits(_)
Digits(n) == IF n < 10 THEN << n >> ELSE Append(Digits(n \div 10), n % 10)

\* the integer json.load reads from decimal digits
RECURSIVE Number(_)
Number(ds) ==
    IF Len(ds) = 0 THEN 0
    ELSE 10 * Number(SubSeq(ds, 1, Len(ds) - 1)) + ds[Len(ds)]

\* json.dump(state.to_dict(), f): the document written to slot 1; an
\* integer is written as a sign and decimal digits
json_dump(d) ==
    [k \in DOMAIN d |->
        IF k \in IntFields
        THEN [neg |-> d[k] < 0, digits |-> Digits(IF d[k] < 0 THEN 0 - d[k] ELSE d[k])]
        ELSE d[k]]

\* json.load(f)
json_load(doc) ==
    [k \in DOMAIN doc |->
        IF k \in IntFields
        THEN (IF doc[k].neg THEN 0 - Number(doc[k].digits) ELSE Number(doc[k].digits))
        ELSE doc[k]]

\* from_dict that leaves gold as the constructor set it
from_dict_keeping_start_gold(d, world) ==
    LET obj == NewGameState(Get(d, "role", Portuguese))
    IN  [obj EXCEPT
            !.spices = Get(d, "spices", 0),
            !.ship_health = Get(d, "ship_health", 100),
            !.morale = Get(d, "morale", 50),
            !.day = Get(d, "day", 1),
            !.current_location = Get(d, "current_location", AtSea),
            !.current_location_type = Get(d, "current_location_type", "sea"),
            !.once_flags = Get(d, "once_flags", << >>)]

\* GameState.from_dict: the constructor runs for the role (with its role
\* adjustments), then every field is set from the snapshot
from_dict(d, world) ==
    LET obj == NewGameState(Get(d, "role", Portuguese))
    IN  [obj EXCEPT
            !.gold = Get(d, "gold", 0),
            !.spices = Get(d, "spices", 0),
            !.ship_health = Get(d, "ship_health", 100),
            !.morale = Get(d, "morale", 50),
            !.day = Get(d, "day", 1),
            !.current_location = Get(d, "current_location", AtSea),
            !.current_location_type = Get(d, "current_location_type", "sea"),
            !.once_flags = Get(d, "once_flags", << >>)]

\* load_game: None without a save, else from_dict of the document read
load_game(saved, world) ==
    IF saved = EmptyDict THEN None ELSE from_dict(json_load(saved), world)

\* ------------------------------------------------------------------
\* run_game: one action per step of a loop iteration
\* ------------------------------------------------------------------
\* selection "1": sail on
Sail(inp) ==
    /\ pc = "menu" /\ strip(inp) = "1"
    /\ state.day < MaxDay
    /\ trigger_random("sail",
                      [state EXCEPT !.current_location = AtSea,
                                    !.current_location_type = "sea"],
                      "sea_events", << "sea_events" >>)
    /\ UNCHANGED landed

\* selection "2" with a destination chosen: make landfall
Landfall(inp, top, sel) ==
    /\ pc = "menu" /\ strip(inp) = "2"
    /\ state.day < MaxDay
    /\ LET dest == travel_menu(World, top, sel)
       IN  /\ Truthy(dest[1]) /\ Truthy(dest[2])
           /\ handle_landfall("landfall",
                              [state EXCEPT !.current_location = dest[1],
                                            !.current_location_type = dest[2]])
    /\ UNCHANGED landed

\* LandfallCancel that puts the player at sea ("You remain at sea.")
LandfallCancelMovesToSea(inp, top, sel) ==
    /\ pc = "menu" /\ strip(inp) = "2"
    /\ LET dest == travel_menu(World, top, sel)
       IN  ~(Truthy(dest[1]) /\ Truthy(dest[2]))
    /\ state' = [state EXCEPT !.current_location = AtSea, !.current_location_type = "sea"]
    /\ act' = [NoAct(state) EXCEPT !.kind = "cancel"]
    /\ pc' = "enter"
    /\ UNCHANGED << events, cur, shown, landed >>

\* selection "2" cancelled: "You remain at sea."
LandfallCancel(inp, top, sel) ==
    /\ pc = "menu" /\ strip(inp) = "2"
    /\ LET dest == travel_menu(World, top, sel)
       IN  ~(Truthy(dest[1]) /\ Truthy(dest[2]))
    /\ act' = [NoAct(state) EXCEPT !.kind = "cancel"]
    /\ pc' = "enter"
    /\ UNCHANGED << state, events, cur, shown, landed >>

\* selection "3": check status
Status(inp) ==
    /\ pc = "menu" /\ strip(inp) = "3"
    /\ act' = [NoAct(state) EXCEPT !.kind = "status"]
    /\ pc' = "enter"
    /\ UNCHANGED << state, events, cur, shown, landed >>

\* selection "4": save to slot 1
Save(inp) ==
    /\ pc = "menu" /\ strip(inp) = "4"
    /\ act' = [NoAct(state) EXCEPT !.kind = "save", !.saved = json_dump(to_dict(state))]
    /\ pc' = "enter"
    /\ UNCHANGED << state, events, cur, shown, landed >>

\* selection "5": quit
Quit(inp) ==
    /\ pc = "menu" /\ strip(inp) = "5"
    /\ pc' = "quit"
    /\ act' = [NoAct(state) EXCEPT !.kind = "quit"]
    /\ UNCHANGED << state, events, cur, shown, landed >>

\* any other selection: "I didn't catch that."
Unrecognized(inp) ==
    /\ pc = "menu" /\ strip(inp) \notin {"1", "2", "3", "4", "5"}
    /\ act' = [NoAct(state) EXCEPT !.kind = "other"]
    /\ pc' = "enter"
    /\ UNCHANGED << state, events, cur, shown, landed >>

\* _resolve_event: the choice is read and its effect applied
Choose(inp) ==
    /\ pc = "choice"
    /\ state' = ChoiceOutcome(cur.ev.options, strip(inp), state)
    /\ cur' = [cur EXCEPT !.choice = strip(inp)]
    /\ pc' = "flag"
    /\ UNCHANGED << events, act, shown, landed >>

\* RecordOnce that records the once key of an ambient event too
RecordOnceForAnyPool ==
    /\ pc = "flag"
    /\ state' = IF OnceScopeKey(events[cur.pool][cur.idx], state) # None
                THEN [state EXCEPT !.once_flags =
                        Append(@, OnceScopeKey(events[cur.pool][cur.idx], state))]
                ELSE state
    /\ pc' = "day"
    /\ UNCHANGED << events, cur, act, shown, landed >>

\* _resolve_event: if once_key: once_flags.append(once_key); press_enter()
RecordOnce ==
    /\ pc = "flag"
    /\ state' = IF cur.key # None
                THEN [state EXCEPT !.once_flags = Append(@, cur.key)]
                ELSE state
    /\ pc' = "day"
    /\ UNCHANGED << events, cur, act, shown, landed >>

\* EndDay when an event without options also skips state.day += 1
EndDaySkippedWithoutOptions ==
    /\ pc = "day"
    /\ state' = IF cur.pool # None /\ cur.choice = None
                THEN state
                ELSE [state EXCEPT !.day = @ + 1]
    /\ pc' = IF is_game_over(state') THEN "over" ELSE "menu"
    /\ cur' = NoEvent
    /\ act' = NoAct(state')
    /\ landed' = IF act.kind = "landfall" THEN Append(landed, state.current_location) ELSE landed
    /\ UNCHANGED << events, shown >>

\* EndDay when the loop does not test is_game_over
EndDayWithoutGameOverTest ==
    /\ pc = "day"
    /\ state' = [state EXCEPT !.day = @ + 1]
    /\ pc' = "menu"
    /\ cur' = NoEvent
    /\ act' = NoAct(state')
    /\ landed' = IF act.kind = "landfall" THEN Append(landed, state.current_location) ELSE landed
    /\ UNCHANGED << events, shown >>

\* state.day += 1, then the top of the loop: is_game_over or the menu
EndDay ==
    /\ pc = "day"
    /\ state' = [state EXCEPT !.day = @ + 1]
    /\ pc' = IF is_game_over(state') THEN "over" ELSE "menu"
    /\ cur' = NoEvent
    /\ act' = NoAct(state')
    /\ landed' = IF act.kind = "landfall" THEN Append(landed, state.current_location) ELSE landed
    /\ UNCHANGED << events, shown >>

\* press_enter() after a cancelled landfall, the status, a save or an
\* unrecognized selection; back to the top of the loop
Continue ==
    /\ pc = "enter"
    /\ pc' = "menu"
    /\ act' = NoAct(state)
    /\ UNCHANGED << state, events, cur, shown, landed >>

Next ==
    \/ \E inp \in MenuInputs : Sail(inp)
    \/ \E inp \in MenuInputs, top \in TopInputs, sel \in SelInputs : Landfall(inp, top, sel)
    \/ \E inp \in MenuInputs, top \in TopInputs, sel \in SelInputs : LandfallCancel(inp, top, sel)
    \/ \E inp \in MenuInputs : Status(inp)
    \/ \E inp \in MenuInputs : Save(inp)
    \/ \E inp \in MenuInputs : Quit(inp)
    \/ \E inp \in MenuInputs : Unrecognized(inp)
    \/ \E inp \in ChoiceInputs : Choose(inp)
    \/ RecordOnce
    \/ EndDay
    \/ Continue

Spec == Init /\ [][Next]_vars

\* ------------------------------------------------------------------
\* Vocabulary of the properties
\* ------------------------------------------------------------------
Stats(st) == << st.gold, st.spices, st.ship_health, st.morale >>

InBounds(st) ==
    /\ st.gold >= 0 /\ st.spices >= 0
    /\ 0 <= st.ship_health /\ st.ship_health <= 100
    /\ 0 <= st.morale /\ st.morale <= 100

\* effect deltas of either sign, small and large, over one or several fields
EffectDeltas ==
    { [gold |-> -1000], [gold |-> 1000], [spices |-> -7], [spices |-> 300],
      [ship_health |-> -101], [ship_health |-> 250], [morale |-> -1], [morale |-> 51],
      [gold |-> -31, spices |-> -1, ship_health |-> -100, morale |-> -100],
      [gold |-> 5, spices |-> 5, ship_health |-> 500, morale |-> 500],
      [gold |-> 0, morale |-> 0], EmptyDict }

\* the positions of the special events _match_when reports eligible in st
EligibleSet(st) == {i \in 1..Len(Specials) : _match_when(Specials[i], st).ok}

\* an event has just been selected (or none was available): the location
\* is set and nothing else of the state has changed yet
JustSelected ==
    /\ act.kind \in {"sail", "landfall"}
    /\ pc = "choice" \/ (pc = "day" /\ cur.choice = None)

\* the state the action in progress handed to the engine
Arrived == [act.pre EXCEPT !.current_location = state.current_location,
                           !.current_location_type = state.current_location_type]

\* when = {type: major_port, once: true}, no location
IsPortOnce(ev) ==
    LET when == Get(ev, "when", EmptyDict)
    IN  DOMAIN when = {"type", "once"} /\ when.type = "major_port" /\ when.once

\* ------------------------------------------------------------------
\* C1: a once event is never presented by _resolve_event twice for the
\* same key "<event id>|<scope>", whatever its pool and its options.
\* ------------------------------------------------------------------
OnceNeverResolvedTwice ==
    \A i, j \in 1..Len(shown) : i < j => shown[i] # shown[j]

\* ------------------------------------------------------------------
\* C2: gold >= 0, spices >= 0, 0 <= ship_health <= 100 and
\* 0 <= morale <= 100 in every state reachable from a new game, and after
\* apply_effect of any delta to such a state.
\* ------------------------------------------------------------------
StatsInBounds ==
    /\ InBounds(state)
    /\ \A e \in EffectDeltas : InBounds(apply_effect(state, e))

\* an effect that would have taken gold below 0 has been applied
StatsClampedWitness ==
    /\ pc = "flag"
    /\ cur.choice \in DOMAIN cur.ev.options
    /\ act.pre.gold + Get(Get(cur.ev.options[cur.choice], "effect", EmptyDict), "gold", 0) < 0
    /\ state.gold = 0

\* ------------------------------------------------------------------
\* C3: on a landfall at a major port P, a special event with
\* when = {type: major_port, once: true} fires exactly when no earlier
\* landfall was made at P: first landfall at P fires it, a later landfall
\* at P skips it, the first landfall at another port Q fires it again.
\* (In the data such an event heads the special pool.)
\* ------------------------------------------------------------------
PortOnceFiresOncePerPort ==
    (JustSelected /\ act.kind = "landfall" /\ state.current_location_type = "major_port") =>
        \A i \in 1..Len(Specials) :
            IsPortOnce(Specials[i]) =>
                ((cur.pool = "special_events" /\ cur.idx = i)
                    <=> ~InList(state.current_location, landed))

\* after two landfalls at Malacca the event fires at Aceh
PortOnceWitness ==
    /\ JustSelected
    /\ landed = << Malacca, Malacca >>
    /\ state.current_location = Aceh
    /\ cur.pool = "special_events"
    /\ IsPortOnce(Specials[cur.idx])
    /\ InList("harbormaster_intro|Malacca Harbor", state.once_flags)

\* ------------------------------------------------------------------
\* C4: while the key computed for a once special event is in once_flags,
\* _match_when reports the event not eligible and
\* trigger_special_if_any does not select it.
\* ------------------------------------------------------------------
OnceBlocksReselection ==
    /\ \A i \in 1..Len(Specials) :
          LET m == _match_when(Specials[i], state)
          IN  (m.key # None /\ InList(m.key, state.once_flags)) => ~m.ok
    /\ (JustSelected /\ cur.pool = "special_events") =>
          (OnceScopeKey(Specials[cur.idx], state) # None =>
              ~InList(OnceScopeKey(Specials[cur.idx], state), state.once_flags))

\* back at Malacca with the intro's key recorded, another event is selected
OnceBlocksWitness ==
    /\ JustSelected /\ act.kind = "landfall"
    /\ state.current_location = Malacca
    /\ InList("harbormaster_intro|Malacca Harbor", state.once_flags)
    /\ cur.pool # None
    /\ ~(cur.pool = "special_events" /\ IsPortOnce(Specials[cur.idx]))

\* ------------------------------------------------------------------
\* C5: an input that is not an option key of the event being resolved
\* leaves gold, spices, ship_health and morale as they were, and the once
\* key, when one was passed, is in once_flags when resolution returns.
\* ------------------------------------------------------------------
HesitationChangesNothing ==
    (pc \in {"flag", "day"} /\ cur.pool # None /\ cur.choice # None
        /\ cur.choice \notin DOMAIN cur.ev.options) =>
        /\ Stats(state) = Stats(act.pre)
        /\ (pc = "day" /\ cur.key # None) => InList(cur.key, state.once_flags)

\* the empty input at a once special event, resolution returned
HesitationWitness ==
    /\ pc = "day"
    /\ cur.key # None
    /\ cur.choice = ""
    /\ DOMAIN cur.ev.options # {}
    /\ InList(cur.key, state.once_flags)
    /\ ~InList(cur.key, act.pre.once_flags)

\* ------------------------------------------------------------------
\* C6: trigger_special_if_any resolves the first special event, in pool
\* order, that _match_when reports eligible for (role, location, location
\* type, once_flags), and none when none is eligible.
\* ------------------------------------------------------------------
FirstMatchWins ==
    (JustSelected /\ act.kind = "landfall") =>
        IF EligibleSet(state) = {}
        THEN cur.pool # "special_events"
        ELSE /\ cur.pool = "special_events"
             /\ cur.idx \in EligibleSet(state)
             /\ \A j \in EligibleSet(state) : cur.idx <= j
             /\ cur.key = _match_when(Specials[cur.idx], state).key

\* two special events are eligible and the earlier one is resolved
FirstMatchWitness ==
    /\ JustSelected /\ act.kind = "landfall"
    /\ Cardinality(EligibleSet(state)) >= 2
    /\ cur.pool = "special_events"
    /\ cur.idx = 1

\* ------------------------------------------------------------------
\* C7: a completed landfall resolved exactly one event, or none with the
\* "no events available" notice exactly when no special event was
\* eligible and the ambient pool is empty; a completed sail made one
\* selection from sea_events (none, with the notice, when it is empty).
\* ------------------------------------------------------------------
ExactlyOneEvent ==
    /\ (pc = "day" /\ act.kind = "landfall") =>
          LET pool == Get(events, AmbientPool(Arrived.current_location_type), << >>)
              none == EligibleSet(Arrived) = {} /\ pool = << >>
          IN  /\ act.fired = (IF none THEN 0 ELSE 1)
              /\ act.notice <=> none
              /\ act.fired = 1 <=> cur.pool # None
              /\ cur.pool = "special_events" <=> act.consulted = << "special_events" >>
    /\ (pc = "day" /\ act.kind = "sail") =>
          /\ act.consulted = << "sea_events" >>
          /\ act.fired = (IF Get(events, "sea_events", << >>) = << >> THEN 0 ELSE 1)
          /\ act.notice <=> act.fired = 0
          /\ act.fired = 1 <=> cur.pool = "sea_events"

\* a landfall that found no special event and an empty ambient pool
NoEventsWitness ==
    /\ pc = "day" /\ act.kind = "landfall"
    /\ act.fired = 0 /\ act.notice

\* ------------------------------------------------------------------
\* C8: on landfall special_events is consulted first; an ambient pool is
\* used only when no special event is eligible: harbor_events at a
\* major_port, village_events at a village, harbor_events otherwise.
\* ------------------------------------------------------------------
LandfallDispatch ==
    /\ (JustSelected /\ act.kind = "landfall") =>
          LET t == state.current_location_type
              expected == CASE t = "major_port" -> "harbor_events"
                            [] t = "village" -> "village_events"
                            [] OTHER -> "harbor_events"
          IN  IF EligibleSet(state) # {}
              THEN act.consulted = << "special_events" >> /\ cur.pool = "special_events"
              ELSE /\ act.consulted = << "special_events", expected >>
                   /\ cur.pool \in {expected, None}
    /\ \A t \in {"sea", "", "reef"} : AmbientPool(t) = "harbor_events"

\* an event of village_events is resolved at a village
VillagePoolWitness ==
    /\ JustSelected /\ act.kind = "landfall"
    /\ state.current_location_type = "village"
    /\ cur.pool = "village_events"
    /\ act.consulted = << "special_events", "village_events" >>

\* ------------------------------------------------------------------
\* C9: day never decreases; a sail or a landfall that reached a
\* destination ends with day one more than when it began, whatever event
\* fired; every other action ends with day as it was.
\* ------------------------------------------------------------------
DayCountsActions ==
    [][ /\ state'.day >= state.day
        /\ pc \in {"day", "enter"} =>
              state'.day = act.pre.day + (IF act.kind \in {"sail", "landfall"} THEN 1 ELSE 0)
        /\ pc # "day" => state'.day = state.day
        /\ (pc = "menu" /\ pc' = "day") => act'.kind \in {"sail", "landfall"}
        /\ (pc = "menu" /\ pc' = "enter") => act'.kind \in {"cancel", "status", "save", "other"}
      ]_vars

\* day 2 after a landfall whose event had no options
DayAfterNoOptionsWitness ==
    /\ pc = "menu"
    /\ state.day = 2
    /\ shown = << "shrine_visit|Kampung Laut" >>
    /\ landed = << Kampung >>

\* ------------------------------------------------------------------
\* C10 as stated: once ship_health <= 0 or morale <= 0, no field of the
\* state changes again.
\* ------------------------------------------------------------------
NoMutationOnceDead ==
    [][ is_game_over(state) => state' = state ]_vars

\* ------------------------------------------------------------------
\* C10 amended: once ship_health <= 0 or morale <= 0, the action in
\* progress still appends its once key and adds 1 to day, the game then
\* ends, and nothing else of the state changes again.
\* ------------------------------------------------------------------
TerminalAfterAction ==
    /\ [](is_game_over(state) => pc \in {"flag", "day", "over"})
    /\ [][ is_game_over(state) =>
              /\ Stats(state') = Stats(state)
              /\ state'.role = state.role
              /\ state'.current_location = state.current_location
              /\ state'.current_location_type = state.current_location_type
              /\ state'.once_flags # state.once_flags =>
                    pc = "flag" /\ state'.once_flags = Append(state.once_flags, cur.key)
              /\ state'.day # state.day => pc = "day" /\ state'.day = state.day + 1
              /\ pc' \in {"day", "over"}
         ]_vars

\* the game is over, the day of the fatal action counted
GameOverWitness ==
    /\ pc = "over"
    /\ is_game_over(state)
    /\ state.day > 1

\* ------------------------------------------------------------------
\* C11: saving a state (to_dict, written by save_game) and loading the
\* snapshot (load_game, from_dict) gives a state equal to the saved one
\* in role, gold, spices, ship_health, morale, day, current_location,
\* current_location_type and once_flags (same keys, same order).
\* ------------------------------------------------------------------
SaveLoadRoundTrip ==
    /\ from_dict(json_load(json_dump(to_dict(state))), World) = state
    /\ act.kind = "save" => load_game(act.saved, World) = state

\* a save made in port, gold spent and two once keys recorded
SavedMidVoyageWitness ==
    /\ pc = "enter" /\ act.kind = "save"
    /\ act.saved # EmptyDict
    /\ Len(state.once_flags) >= 2
    /\ state.gold # NewGameState(state.role).gold
    /\ state.current_location_type = "major_port"

\* ------------------------------------------------------------------
\* Events given to _merge_role_variant besides those of the pools
\* ------------------------------------------------------------------
\* the Arab variant overrides the description and the text of option "2";
\* the Chinese variant is empty; the Portuguese variant names an option
\* "3" the base lacks and overrides text and effect of option "1"
toll ==
    [id |-> "toll",
     description |-> Lit("A toll boat hails you near ") \o Ph("current_port"),
     options |-> [k \in {"1", "2"} |->
        IF k = "1"
        THEN [text |-> Lit("Pay ") \o Ph("harbor_fee"), effect |-> [gold |-> -8]]
        ELSE [text |-> Lit("Flee"), effect |-> [ship_health |-> -10]]],
     variants |-> [r \in {Arab, Chinese, Portuguese} |->
        CASE r = Arab ->
                [description |-> Lit("The toll keeper salutes you"),
                 options |-> [k \in {"2"} |-> [text |-> Lit("Bless them and leave")]]]
          [] r = Chinese -> EmptyDict
          [] r = Portuguese ->
                [options |-> [k \in {"1", "3"} |->
                    IF k = "1"
                    THEN [text |-> Lit("Pay in silver"), effect |-> [gold |-> -3]]
                    ELSE [text |-> Lit("Fire a warning shot"), effect |-> [morale |-> 5]]]]]]

\* no options of its own; the Chinese variant supplies one, the Arab
\* variant has an empty options mapping beside its description
rumour ==
    [id |-> "rumour",
     description |-> Lit("Sailors trade rumours"),
     variants |-> [r \in {Arab, Chinese} |->
        IF r = Chinese
        THEN [options |-> [k \in {"1"} |-> [text |-> Lit("Listen"), effect |-> [gold |-> 1]]]]
        ELSE [description |-> Lit("Sailors ask for your counsel"), options |-> EmptyDict]]]

MergeCases == {harbormaster_intro, dai_sermon, shrine_visit, toll, rumour}

Roles == {Portuguese, Arab, Chinese}

\* the merge as the design states it, field by field
ReferenceMerge(ev, r) ==
    LET var == IF "variants" \in DOMAIN ev /\ r \in DOMAIN ev.variants
               THEN ev.variants[r] ELSE EmptyDict
        named == IF "options" \in DOMAIN var THEN DOMAIN var.options ELSE {}
        base == IF "options" \in DOMAIN ev THEN ev.options ELSE EmptyDict
        fields == DOMAIN ev
                    \cup (IF "description" \in DOMAIN var THEN {"description"} ELSE {})
                    \cup (IF named # {} THEN {"options"} ELSE {})
        option(k) ==
            IF k \notin named THEN base[k]
            ELSE LET over == var.options[k]
                     under == IF k \in DOMAIN base THEN base[k] ELSE EmptyDict
                 IN  [g \in DOMAIN under \cup DOMAIN over |->
                        IF g \in DOMAIN over THEN over[g] ELSE under[g]]
    IN  IF DOMAIN var = {} THEN ev
        ELSE [f \in fields |->
                CASE f = "description" /\ "description" \in DOMAIN var -> var.description
                  [] f = "options" -> [k \in DOMAIN base \cup named |-> option(k)]
                  [] OTHER -> ev[f]]

\* the variant of ev for role r, EmptyDict when there is none
VariantOf(ev, r) == Get(Get(ev, "variants", EmptyDict), r, EmptyDict)

\* ------------------------------------------------------------------
\* C12: _merge_role_variant(event, role) equals the reference merge: no
\* variant for the role, the event unchanged; else the description is
\* replaced only if the variant has one, an option the variant names has
\* the variant's fields laid over the base option's, other options are
\* the base's.  A description-only variant leaves the options as the
\* base's; a variant overriding only "1".effect leaves "1".text the base's.
\* (The comparison over MergeCases does not depend on the state of play:
\* it is evaluated in the states of day 1.)
\* ------------------------------------------------------------------
MergeIsReferenceMerge ==
    /\ \A ev \in (IF state.day = 1 THEN MergeCases ELSE {}), r \in Roles :
          LET res == _merge_role_variant(ev, r)
              var == VariantOf(ev, r)
          IN  /\ res = ReferenceMerge(ev, r)
              /\ DOMAIN var = {} => res = ev
              /\ DOMAIN var = {"description"} =>
                    res.options = ev.options /\ res.description = var.description
              /\ (DOMAIN var = {"options"} /\ DOMAIN var.options = {"1"}
                    /\ DOMAIN var.options["1"] = {"effect"} /\ "1" \in DOMAIN ev.options) =>
                    /\ res.options["1"].text = ev.options["1"].text
                    /\ res.options["1"].effect = var.options["1"].effect
                    /\ res.description = ev.description
    /\ (JustSelected /\ cur.pool = "special_events") =>
          cur.ev = _apply_templating(ReferenceMerge(Specials[cur.idx], state.role),
                                     _context_for_event(state, World))

\* the Chinese variant of the intro is presented at Malacca: the effect of
\* option "1" is the variant's, its text the base's (templated)
MergedVariantWitness ==
    /\ JustSelected /\ cur.pool = "special_events"
    /\ state.role = Chinese /\ state.current_location = Malacca
    /\ DOMAIN VariantOf(Specials[cur.idx], Chinese) = {"options"}
    /\ cur.ev.options["1"].effect = [gold |-> -5, spices |-> -5]
    /\ cur.ev.options["1"].text = << [lit |-> "Pay "], [lit |-> "12"] >>
    /\ cur.ev.options["2"] = Specials[cur.idx].options["2"]

\* ------------------------------------------------------------------
\* C13: the templating context has the registered harbor master's name
\* and fee exactly when the location type is major_port and the registry
\* has a record whose port is the current location; in every other state
\* it has "the harbormaster" and 8; current_port is the current location.
\* ------------------------------------------------------------------
ContextUsesRegistry ==
    LET ctx == _context_for_event(state, World)
        recs == {i \in 1..Len(World.harbor_masters) :
                    World.harbor_masters[i].port = state.current_location}
        registered == state.current_location_type = "major_port" /\ recs # {}
    IN  /\ ctx.current_port = state.current_location
        /\ registered =>
              \E i \in recs :
                  /\ \A j \in recs : i <= j
                  /\ ctx.harbormaster_name = World.harbor_masters[i].name
                  /\ ctx.harbor_fee = World.harbor_masters[i].fees
        /\ ~registered =>
              ctx.harbormaster_name = "the harbormaster" /\ ctx.harbor_fee = 8
        /\ (JustSelected /\ cur.pool # None /\ ~registered) =>
              \A i \in 1..Len(cur.ev.description) :
                  /\ cur.ev.description[i] # [lit |-> "Pak Long"]
                  /\ cur.ev.description[i] # [lit |-> "Tun Perak"]
        /\ (JustSelected /\ cur.pool = "special_events" /\ registered
                /\ Specials[cur.idx].id = "harbormaster_intro" /\ state.role # Portuguese) =>
              /\ cur.ev.description[1] = [lit |-> "Tun Perak"]
              /\ cur.ev.options["1"].text = << [lit |-> "Pay "], [lit |-> "12"] >>

\* an event is presented at the village Kampung Laut, whose name is also
\* the port of a harbor-master record: the fallback is used
VillageFallbackWitness ==
    /\ JustSelected /\ cur.pool # None
    /\ state.current_location_type = "village"
    /\ harbor_master_for(state.current_location, World) # EmptyDict
    /\ _context_for_event(state, World).harbormaster_name = "the harbormaster"
    /\ _context_for_event(state, World).harbor_fee = 8
    /\ \E i \in 1..Len(cur.ev.description) : cur.ev.description[i] = [lit |-> Kampung]

\* ------------------------------------------------------------------
\* C14: through any sequence of sail and landfall actions, with any role
\* and choices, the event pools are equal to their values at load time:
\* merging, templating and resolution write to no dict of the source
\* data, the effect dict a variant shares with the merged copy included.
\* (The world registry is only read.)
\* ------------------------------------------------------------------
SourceDataUnchanged ==
    /\ [](events \in EventData)
    /\ [][events' = events]_vars

\* the merged copy held the Chinese variant's own effect dict, the
\* effect was applied, and the pools are as loaded
SharedEffectWitness ==
    /\ pc = "flag" /\ cur.pool = "special_events" /\ cur.choice = "1"
    /\ state.role = Chinese
    /\ << "options", "1", "effect" >>
          \in MergeShared(Specials[cur.idx], Chinese, SourceDicts(Specials[cur.idx]))
    /\ cur.ev.options["1"].effect = VariantOf(Specials[cur.idx], Chinese).options["1"].effect
    /\ cur.ev.description # Specials[cur.idx].description
    /\ state.gold = act.pre.gold - 5
    /\ events = EventsFull

\* ------------------------------------------------------------------
\* C15: whenever _resolve_event is entered with a once key, the key is in
\* once_flags when it returns, on every path: recognized choice,
\* unrecognized choice, event without options.
\* ------------------------------------------------------------------
OnceKeyAlwaysWritten ==
    (pc = "day" /\ cur.pool # None /\ cur.key # None) => InList(cur.key, state.once_flags)

\* ------------------------------------------------------------------
\* C16: for every event that fires, from sea_events, harbor_events,
\* village_events or special_events, the stages run in the order select,
\* role-variant merge for the player's role, templating, presentation:
\* what is presented is the templated role variant of the selected
\* event, for an ambient event too.
\* ------------------------------------------------------------------
VariantPresentedFromAnyPool ==
    (JustSelected /\ cur.pool # None) =>
        cur.ev = _apply_templating(_merge_role_variant(events[cur.pool][cur.idx], state.role),
                                   _context_for_event(state, World))

\* ------------------------------------------------------------------
\* Events given to _match_when besides those of the pools: their when
\* ------------------------------------------------------------------
\* once events whose scope is "*"; the id is one whose key "<id>|*"
\* play records in once_flags
MatchWhensAnywhere ==
    { [once |-> TRUE],
      [type |-> "village", once |-> TRUE],
      [location |-> << >>, role |-> << >>, once |-> TRUE] }

\* once events whose scope is the location, and events without once; the
\* id is one whose key "<id>|<port>" play records in once_flags
MatchWhensInPlace ==
    { EmptyDict,
      [once |-> FALSE, type |-> "major_port"],
      [type |-> "sea"],
      [location |-> << Malacca >>, once |-> TRUE],
      [location |-> << Malacca, Kampung >>, type |-> "village", once |-> TRUE],
      [location |-> << Aceh >>, role |-> << Chinese, Arab >>],
      [role |-> << Arab >>, type |-> "major_port", once |-> TRUE] }

MatchCases ==
    {[id |-> "dai_sermon", when |-> w] : w \in MatchWhensAnywhere}
    \cup {[id |-> "harbormaster_intro", when |-> w] : w \in MatchWhensInPlace}
    \cup {storm, festival, shrine_visit}

\* the matcher as the design states it: three tests, the once key, the
\* once test
ReferenceMatch(ev, st) ==
    LET when == IF "when" \in DOMAIN ev THEN ev.when ELSE EmptyDict
        loc_set == "location" \in DOMAIN when /\ when.location # << >>
        loc_ok == ~loc_set \/ \E i \in DOMAIN when.location : when.location[i] = st.current_location
        type_ok == "type" \notin DOMAIN when \/ when.type = st.current_location_type
        role_set == "role" \in DOMAIN when /\ when.role # << >>
        role_ok == ~role_set \/ \E i \in DOMAIN when.role : when.role[i] = st.role
        once == "once" \in DOMAIN when /\ when.once = TRUE
        scope == IF loc_set \/ ("type" \in DOMAIN when /\ when.type = "major_port")
                 THEN st.current_location ELSE "*"
        key == ev.id \o "|" \o scope
        recorded == \E i \in DOMAIN st.once_flags : st.once_flags[i] = key
    IN  [ok |-> loc_ok /\ type_ok /\ role_ok /\ (~once \/ ~recorded),
         key |-> IF loc_ok /\ type_ok /\ role_ok /\ once THEN key ELSE None]

\* ------------------------------------------------------------------
\* C17: _match_when(event, state) agrees with the reference matcher:
\* eligible exactly when the location, type and role tests pass (absent
\* fields and empty lists are wildcards) and the once key is not in
\* once_flags; with once true and the three tests passed the key
\* "<id>|<scope>" is returned whether eligible or not, scope the current
\* location if when.location is non-empty or when.type is major_port and
\* "*" otherwise; when a test fails no key is returned.
\* ------------------------------------------------------------------
MatchIsReferenceMatch ==
    /\ \A ev \in MatchCases : _match_when(ev, state) = ReferenceMatch(ev, state)
    /\ \A i \in 1..Len(Specials) :
          _match_when(Specials[i], state) = ReferenceMatch(Specials[i], state)

\* at Malacca again: trigger_special_if_any was told (False, key) for the
\* intro, and (False, None) for an event whose role test fails
BlockedKeyReturnedWitness ==
    /\ JustSelected /\ act.kind = "landfall"
    /\ state.current_location = Malacca
    /\ state.role = Chinese
    /\ _match_when(harbormaster_intro, state)
          = [ok |-> FALSE, key |-> "harbormaster_intro|Malacca Harbor"]
    /\ _match_when(dai_sermon, state) = [ok |-> FALSE, key |-> None]
    /\ _match_when([id |-> "harbormaster_intro", when |-> [type |-> "village", once |-> TRUE]],
                   [state EXCEPT !.current_location_type = "village"])
          = [ok |-> TRUE, key |-> "harbormaster_intro|*"]

\* the ship is wrecked or the crew has deserted
Dead(st) == st.ship_health <= 0 \/ st.morale <= 0

\* ------------------------------------------------------------------
\* C18: once ship_health <= 0 or morale <= 0 holds at the end of a sail
\* or landfall action, run_game ends before another action menu: no
\* menu, event, choice or save follows, and the state never changes
\* again.
\* ------------------------------------------------------------------
GameEndsBeforeNextMenu ==
    /\ [](pc \in {"menu", "choice", "enter", "quit"} => ~Dead(state))
    /\ [][ (pc = "day" /\ Dead(state')) => pc' = "over" ]_vars
    /\ [][ pc # "over" ]_vars

\* the crew deserted on a sound ship, and the loop has ended
DesertedWitness ==
    /\ pc = "over"
    /\ state.morale <= 0 /\ state.ship_health > 0
    /\ act = NoAct(state) /\ cur = NoEvent

\* ------------------------------------------------------------------
\* C19: once_flags has no duplicate key and only grows: a key is
\* appended only by the resolution of a special event that was eligible
\* (the key was absent when matched), no key is removed, and an event of
\* an ambient pool adds no key even when its when.once is true.
\* ------------------------------------------------------------------
OnceFlagsGrowOnly ==
    /\ [](\A i, j \in 1..Len(state.once_flags) :
             i < j => state.once_flags[i] # state.once_flags[j])
    /\ []((pc \in {"flag", "day"} /\ cur.pool \notin {None, "special_events"}) =>
             state.once_flags = act.pre.once_flags)
    /\ [][ \/ state'.once_flags = state.once_flags
           \/ /\ pc = "flag" /\ cur.pool = "special_events"
              /\ cur.key # None
              /\ cur.key = OnceScopeKey(Specials[cur.idx], state)
              /\ ~InList(cur.key, state.once_flags)
              /\ state'.once_flags = Append(state.once_flags, cur.key)
         ]_vars

\* the once event festival of harbor_events was resolved and left
\* once_flags, which holds a special event's key, as it was
AmbientOnceAddsNoKeyWitness ==
    /\ pc = "day" /\ cur.pool = "harbor_events" /\ cur.choice = "1"
    /\ OnceScopeKey(events[cur.pool][cur.idx], state) = "festival|*"
    /\ Len(state.once_flags) >= 1
    /\ state.once_flags = act.pre.once_flags

\* ------------------------------------------------------------------
\* C20: a landfall cancelled or given an out-of-range or non-numeric
\* destination, a status check, a save and an unrecognized action-menu
\* input leave every field of the state unchanged; a cancelled landfall
\* does not move the player to sea.
\* ------------------------------------------------------------------
IdleActionsChangeNothing ==
    /\ [](pc = "enter" => /\ act.kind \in {"cancel", "status", "save", "other"}
                          /\ state = act.pre)
    /\ [](/\ \A sel \in SelInputs : travel_menu(World, "3", sel) = << None, None >>
          /\ \A sel \in {"0", "3", "x"} : travel_menu(World, "1", sel) = << None, None >>
          /\ \A sel \in {"0", "2", "3", "x"} : travel_menu(World, "2", sel) = << None, None >>)
    /\ [][ /\ (pc = "menu" /\ pc' = "enter") => state' = state
           /\ (pc = "menu" /\ state' # state) => act'.kind \in {"sail", "landfall"}
           /\ (pc = "menu" /\ act'.kind = "landfall") =>
                  \E top \in {"1", "2"}, sel \in {"1", "2"} :
                      /\ travel_menu(World, top, sel) # << None, None >>
                      /\ state'.current_location = travel_menu(World, top, sel)[1]
           /\ pc = "enter" => state' = state /\ pc' = "menu"
         ]_vars

\* a landfall was cancelled in port, after a day of play: the player
\* is still in port
CancelledInPortWitness ==
    /\ pc = "enter" /\ act.kind = "cancel"
    /\ state.current_location_type = "major_port"
    /\ state.day > 1
    /\ state = act.pre

\* ------------------------------------------------------------------
\* C21: in every state reachable from a new game the location type is
\* sea, major_port or village; at sea the location is "At Sea", at a
\* major_port it is the name of an entry of the world's major_ports, at
\* a village the name of an entry of its villages; hence landfall
\* dispatch never takes its "anything else -> harbor_events" branch.
\* ------------------------------------------------------------------
LocationConsistent ==
    LET loc == state.current_location
        t == state.current_location_type
    IN  /\ t \in {"sea", "major_port", "village"}
        /\ t = "sea" => loc = "At Sea"
        /\ t = "major_port" =>
              \E i \in 1..Len(World.major_ports) : World.major_ports[i].name = loc
        /\ t = "village" =>
              \E i \in 1..Len(World.villages) : World.villages[i].name = loc
        /\ (act.kind = "landfall" /\ pc \in {"choice", "flag", "day"}) =>
              /\ t \in {"major_port", "village"}
              /\ \A n \in 1..Len(act.consulted) :
                    act.consulted[n] = "harbor_events" => t = "major_port"
        /\ act.kind = "sail" => t = "sea"

\* after a landfall at the village, a landfall at Aceh drew from
\* harbor_events by the major_port branch
PortAfterVillageWitness ==
    /\ JustSelected /\ act.kind = "landfall"
    /\ InList(Kampung, landed)
    /\ state.current_location = Aceh
    /\ state.current_location_type = "major_port"
    /\ cur.pool = "harbor_events"
    /\ act.pre.current_location # state.current_location

====
